---- MODULE Spec2Model ----
(***************************************************************************)
(* scout-bot: club search, disambiguation and scouting-report handlers.    *)
(*                                                                         *)
(* The repository holds several near-identical variants of one Discord    *)
(* bot.  The variable "variant" selects the file being run:               *)
(*   "v1"  src/index.js lines 1-499      (one platform, searchClubsByName) *)
(*   "v2"  src/index.js lines 501-1692   (two platforms,                   *)
(*                                        searchClubsAcrossPlatforms)      *)
(*   "v3"  src/unnamed/part_000          (one platform, searchClubsByName) *)
(*   "v4"  src/unnamed/part_001          (sequential lookup by exact name, *)
(*                                        createScoutingReport)            *)
(*                                                                         *)
(* JavaScript runs one handler segment at a time: a handler runs without   *)
(* interruption from one await to the next.  Every action below is one such*)
(* segment.  Awaits on Discord calls (deferReply, editReply, deferUpdate,  *)
(* reply) are taken to succeed and touch no shared state, so they are      *)
(* folded into the segment that issues them; awaits on EA and OpenAI       *)
(* requests are separate steps whose results are chosen nondeterministically*)
(***************************************************************************)
EXTENDS Integers, Sequences, FiniteSets, TLC

(* ----------------------------- bounds ---------------------------------- *)

\* largest number of rows in one modelled search response
MaxRows == 3

\* rows of the larger response when two interactions overlap
OverlapRows == 2

\* matches.slice(0, 5)
TopN == 5

\* longest match history computeRecord is given
MaxMatches == 3

\* most goals of one club in a modelled match
MaxGoals == 1

Variants == {"v1", "v2", "v3", "v4"}
Users == {"u1", "u2"}
HandlerOrder == <<"h1", "h2">>

Handlers == {HandlerOrder[i] : i \in DOMAIN HandlerOrder}

(* ----------------------------- constants ------------------------------- *)

FC_PLATFORMS == <<"common-gen5", "common-gen4">>

PLATFORM == "common-gen5"

EA_PLATFORM == "common-gen5"

PlatformsNewestFirst == <<"ps5", "xboxone", "ps4", "pc">>

\* part_001: the platforms createScoutingReport tries, in order
PLATFORMS == <<"xboxone", "ps5", "ps4", "pc">>

\* the platforms a search of the given variant queries, in source order
SearchPlatforms(v) ==
  IF v = "v2" THEN FC_PLATFORMS
  ELSE IF v = "v1" THEN <<PLATFORM>> ELSE <<EA_PLATFORM>>

Range(s) == {s[i] : i \in DOMAIN s}

AllPlatforms == Range(FC_PLATFORMS)

(* ----------------------------- strings --------------------------------- *)

\* a string is a sequence of one-character strings
IsSpace(c) == c = " "

RECURSIVE TrimStart(_)
TrimStart(s) ==
  IF s = <<>> THEN <<>>
  ELSE IF IsSpace(Head(s)) THEN TrimStart(Tail(s)) ELSE s

RECURSIVE TrimEnd(_)
TrimEnd(s) ==
  IF s = <<>> THEN <<>>
  ELSE IF IsSpace(s[Len(s)]) THEN TrimEnd(SubSeq(s, 1, Len(s) - 1)) ELSE s

\* String.prototype.trim
TrimIdentity(s) == s

Trim(s) == TrimEnd(TrimStart(s))

\* the club names a user may type
Queries == {<<>>, <<" ">>, <<" ", "a">>}

\* the club names typed in overlapping commands
OverlapQueries == {<<" ">>, <<"a">>, <<"b">>}

Digits == <<"0", "1", "2", "3", "4", "5", "6", "7", "8", "9">>

DigitVal(c) == (CHOOSE i \in DOMAIN Digits : Digits[i] = c) - 1

IsDigit(c) == \E i \in DOMAIN Digits : Digits[i] = c

\* String(index) for a non-negative integer
RECURSIVE ToStr(_)
ToStr(n) ==
  IF n < 10 THEN <<Digits[n + 1]>>
  ELSE ToStr(n \div 10) \o <<Digits[(n % 10) + 1]>>

RECURSIVE ParseDigits(_, _, _)
ParseDigits(s, acc, seen) ==
  IF s # <<>> /\ IsDigit(Head(s))
    THEN ParseDigits(Tail(s), acc * 10 + DigitVal(Head(s)), TRUE)
    ELSE [nan |-> ~seen, n |-> acc]

\* parseInt(s, 10): optional sign, leading digits, NaN when there is none
ParseInt(s) ==
  LET t == TrimStart(s)
  IN  IF t # <<>> /\ Head(t) = "-"
        THEN LET r == ParseDigits(Tail(t), 0, FALSE)
             IN  [nan |-> r.nan, n |-> 0 - r.n]
        ELSE IF t # <<>> /\ Head(t) = "+"
          THEN ParseDigits(Tail(t), 0, FALSE)
          ELSE ParseDigits(t, 0, FALSE)

\* the values a select-menu interaction may carry
Values == {ToStr(i) : i \in 0..(TopN - 1)} \cup {<<"x">>, <<"-", "1">>}

(* ------------------------ search responses ----------------------------- *)

\* A row of a leaderboard response, reduced to the fields the search code
\* reads: clubId is the row's own club id (0: the row has none) and infoId
\* describes the nested clubInfo object (-1: no nested object, 0: a nested
\* object without a club id, k > 0: a nested object whose clubId is k).
\* Club ids 1, 2, ... stand for EA's id strings.
Row(id, info) == [clubId |-> id, infoId |-> info]

EaRows(n) == [i \in 1..n |-> Row(i, i)]

FlatRows(n) == [i \in 1..n |-> Row(i, -1)]

RowSeqs ==
  {EaRows(n) : n \in 0..MaxRows} \cup {FlatRows(n) : n \in 1..MaxRows}
    \cup {<<Row(1, 1), Row(1, 1)>>, <<Row(0, -1), Row(2, 2)>>}

\* A response body: null, a bare array of rows, an object whose values are
\* rows (keyed by row index "0", "1", ... or by club id), or an object with
\* one named key holding the array of rows.
NullBody == [kind |-> "null", keys |-> <<>>, rows |-> <<>>]

ArrayBody(rows) == [kind |-> "array", keys |-> <<>>, rows |-> rows]

IndexKeyed(rows) ==
  [kind |-> "object", keys |-> [i \in DOMAIN rows |-> Digits[i]], rows |-> rows]

IdKeyed(rows) ==
  [kind |-> "object",
   keys |-> [i \in DOMAIN rows |-> IF rows[i].clubId > 0 THEN Digits[rows[i].clubId + 1]
                                   ELSE "x"],
   rows |-> rows]

Wrapped(key, rows) == [kind |-> "wrapped", keys |-> <<key>>, rows |-> rows]

Bodies ==
  {NullBody}
    \cup {ArrayBody(r) : r \in RowSeqs}
    \cup {IndexKeyed(r) : r \in RowSeqs \ {<<>>}}
    \cup {IdKeyed(r) : r \in RowSeqs \ {<<>>}}
    \cup {Wrapped(k, r) : k \in {"items", "results"}, r \in RowSeqs}

\* what one search request can come back with
SearchOutcomes ==
  {[kind |-> k, status |-> 0, body |-> NullBody] : k \in {"network_error", "timeout"}}
    \cup {[kind |-> "response", status |-> 200, body |-> b] : b \in Bodies}
    \cup {[kind |-> "response", status |-> 503, body |-> b]
            : b \in {NullBody, ArrayBody(EaRows(1))}}

(* ------------------------ search: parsing ------------------------------ *)

Candidate(platform, id) == [fcPlatform |-> platform, clubId |-> id]

NoCandidate == Candidate("none", 0)

\* data['0'] is truthy: a non-empty array, or an object with a key "0"
HasZeroKey(body) ==
  \/ body.kind = "array" /\ Len(body.rows) > 0
  \/ body.kind = "object" /\ \E i \in DOMAIN body.keys : body.keys[i] = "0"

ZeroValue(body) ==
  IF body.kind = "array" THEN body.rows[1]
  ELSE body.rows[CHOOSE i \in DOMAIN body.keys : body.keys[i] = "0"]

\* Object.values(row).filter(v => v && typeof v === 'object')
NestedObjects(row) == IF row.infoId >= 0 THEN <<Row(row.infoId, -1)>> ELSE <<>>

\* the rows the v2 search loops over
LeaderboardRows(body) ==
  IF HasZeroKey(body) THEN NestedObjects(ZeroValue(body))
  ELSE IF body.kind = "array" THEN body.rows
  ELSE IF body.kind = "object" THEN body.rows
  ELSE <<Row(0, -1)>>

\* const info = row.clubInfo || row.clubinfo || row.info || row;
\* String(info.clubId ?? info.clubID ?? info.id ?? info.club ?? '')
RowClubIdV2(row) == IF row.infoId >= 0 THEN row.infoId ELSE row.clubId

\* item.clubId || item.clubID || (item.club && ...)
RowClubIdV1(row) == row.clubId

\* entry.clubId != null ? ... : entry.clubInfo && entry.clubInfo.clubId != null ? ...
RowClubIdV3(row) ==
  IF row.clubId > 0 THEN row.clubId
  ELSE IF row.infoId > 0 THEN row.infoId ELSE 0

RECURSIVE PushRows(_, _, _)
PushRows(ids, platform, acc) ==
  IF ids = <<>> THEN acc
  ELSE PushRows(Tail(ids), platform,
                IF Head(ids) > 0 THEN Append(acc, Candidate(platform, Head(ids)))
                ELSE acc)

\* the candidates one 200-response of the v2 search pushes onto results
ParseV2(platform, body) ==
  IF body.kind = "null" THEN <<>>
  ELSE LET rows == LeaderboardRows(body)
       IN  PushRows([i \in DOMAIN rows |-> RowClubIdV2(rows[i])], platform, <<>>)

\* data.items || data.clubs || data.result || data.leaderboardEntries ||
\* data.entries || []
ParseV1(platform, body) ==
  IF body.kind = "wrapped" /\ body.keys[1] \in
       {"items", "clubs", "result", "leaderboardEntries", "entries"}
    THEN PushRows([i \in DOMAIN body.rows |-> RowClubIdV1(body.rows[i])],
                  platform, <<>>)
    ELSE <<>>

\* Array.isArray(data) ? data : Array.isArray(data.results) ? data.results : []
ParseV3(platform, body) ==
  IF body.kind = "array" \/ (body.kind = "wrapped" /\ body.keys[1] = "results")
    THEN PushRows([i \in DOMAIN body.rows |-> RowClubIdV3(body.rows[i])],
                  platform, <<>>)
    ELSE <<>>

\* The candidates one settled request contributes.  v2 passes
\* validateStatus: () => true and returns on res.status !== 200; v1 and v3
\* use axios' default, which rejects a non-2xx status into the catch block.
\* A network error or a timeout rejects into the catch block in all three.
ParseOutcome(v, platform, out) ==
  IF out.kind # "response" \/ out.status # 200 THEN <<>>
  ELSE IF v = "v2" THEN ParseV2(platform, out.body)
  ELSE IF v = "v1" THEN ParseV1(platform, out.body)
  ELSE ParseV3(platform, out.body)

(* ------------------------ search: dedup -------------------------------- *)

\* `${r.fcPlatform}:${r.clubId}`
DedupKey(r) == <<r.fcPlatform, r.clubId>>

RECURSIVE DedupFrom(_, _, _)
DedupFrom(results, seen, unique) ==
  IF results = <<>> THEN unique
  ELSE LET r == Head(results)
       IN  IF DedupKey(r) \in seen
             THEN DedupFrom(Tail(results), seen, unique)
             ELSE DedupFrom(Tail(results), seen \cup {DedupKey(r)}, Append(unique, r))

DedupKeepsAll(results) == results

\* the loop at the end of searchClubsAcrossPlatforms
Dedup(results) == DedupFrom(results, {}, <<>>)

\* the v1 and v3 searches return their rows as parsed; v2 deduplicates
SearchResult(v, results) == IF v = "v2" THEN Dedup(results) ELSE results

\* matches.slice(0, 5)
TopKeepsAll(matches) == matches

Top(matches) == SubSeq(matches, 1, IF Len(matches) < TopN THEN Len(matches) ELSE TopN)

(* ------------------------ pending-selection map ------------------------ *)

\* A Map<userId, { query, results }> is the set of its entries.
Entry(u, q, rs) == [key |-> u, query |-> q, results |-> rs]

NoEntry == Entry("none", <<>>, <<>>)

MapHas(map, u) == \E e \in map : e.key = u

\* Map.prototype.get: undefined (NoEntry) when the key is absent
MapGetAnyUser(map, u) ==
  IF map = {} THEN NoEntry
  ELSE IF \E e \in map : e.key = u THEN CHOOSE e \in map : e.key = u
  ELSE CHOOSE e \in map : TRUE

MapGet(map, u) == IF MapHas(map, u) THEN CHOOSE e \in map : e.key = u ELSE NoEntry

MapSetKeepsOld(map, u, q, rs) == map \cup {Entry(u, q, rs)}

\* Map.prototype.set: replaces the value stored under the key
MapSet(map, u, q, rs) == {e \in map : e.key # u} \cup {Entry(u, q, rs)}

\* Map.prototype.delete
MapDelete(map, u) == {e \in map : e.key # u}

ArrayAtClamped(arr, idx) ==
  IF ~idx.nan /\ idx.n >= 0 /\ arr # <<>>
    THEN arr[IF idx.n < Len(arr) THEN idx.n + 1 ELSE Len(arr)]
    ELSE NoCandidate

ArrayAtOneBased(arr, idx) ==
  IF ~idx.nan /\ idx.n >= 1 /\ idx.n <= Len(arr) THEN arr[idx.n]
  ELSE IF ~idx.nan /\ idx.n = 0 /\ arr # <<>> THEN arr[Len(arr)]
  ELSE NoCandidate

\* state.results[index]: undefined (NoCandidate) for NaN, a negative index
\* or an index past the end
ArrayAt(arr, idx) ==
  IF ~idx.nan /\ idx.n >= 0 /\ idx.n < Len(arr) THEN arr[idx.n + 1] ELSE NoCandidate

MenuValueIsNumber(top) ==
  [k \in DOMAIN top |-> [number |-> (k - 1) + 1, value |-> ToStr(k), club |-> top[k]]]

\* The selection menu built from the stored list: the embed line of the club
\* at array index i is numbered i + 1 and its option carries String(i).
\* (Sequences are 1-based here: position k is array index k - 1.)
Menu(top) ==
  [k \in DOMAIN top |-> [number |-> (k - 1) + 1, value |-> ToStr(k - 1), club |-> top[k]]]

\* the club shown in the menu of a stored entry with the given option value
MenuItem(state, val) ==
  IF \E k \in DOMAIN state.results : Menu(state.results)[k].value = val
    THEN Menu(state.results)[CHOOSE k \in DOMAIN state.results :
                               Menu(state.results)[k].value = val].club
    ELSE NoCandidate

(* ------------------------ club detail and report ----------------------- *)

\* the requests fetchClubData issues, in source order
FetchKinds(v) ==
  IF v = "v2"
    THEN <<"info", "overallStats", "playoffAchievements", "membersCareer",
           "membersSeason", "leagueMatches", "playoffMatches", "friendlyMatches">>
  ELSE IF v = "v4"
    THEN <<"info", "overallStats", "leagueMatches", "playoffMatches">>
    ELSE <<"info", "overallStats", "leagueMatches">>

StatsKinds == {"overallStats", "playoffAchievements", "membersCareer", "membersSeason"}

MatchKinds == {"leagueMatches", "playoffMatches", "friendlyMatches"}

AllKinds == Range(FetchKinds("v2"))

\* What one detail request comes back with: a rejection (network error,
\* timeout, non-2xx status) or the body axios parsed -- null, an array of n
\* records, an object with n keys, or a string of n characters (n = 0: the
\* empty body of a 200 response with nothing in it). key > 0 says that one
\* of an object's keys is the club id key.
RejectedRequest == [shape |-> "rejected", n |-> 0, key |-> 0]

NullData == [shape |-> "null", n |-> 0, key |-> 0]

ArrayOf(n) == [shape |-> "array", n |-> n, key |-> 0]

ObjectOf(n) == [shape |-> "object", n |-> n, key |-> 0]

StringOf(n) == [shape |-> "string", n |-> n, key |-> 0]

\* an object keyed by club id: its one key is id, its value the club's record
KeyedBy(id) == [shape |-> "object", n |-> 1, key |-> id]

\* What the detail requests of one fetch come back with, by request: the
\* requests in rej are rejected, the requests in data return one record and
\* the others return null.
Detail(rej, data) ==
  [k \in AllKinds |-> IF k \in rej THEN RejectedRequest
                      ELSE IF k \in data THEN ArrayOf(1) ELSE NullData]

\* no fetch has settled
NoData == [k \in AllKinds |-> [shape |-> "none", n |-> 0, key |-> 0]]

DetailOutcomes(v) ==
  LET all == Range(FetchKinds(v))
  IN  {Detail({}, all), Detail(all, {}), Detail({}, {}), Detail({}, {"info"}),
       Detail({}, {"leagueMatches"}), Detail({"info"}, all \ {"info"}),
       Detail({"overallStats"}, {"info"})}

\* Promise.all rejects as soon as one request does (v1, v3);
\* Promise.allSettled never rejects (v2)
FetchThrows(v, d) ==
  v # "v2" /\ \E k \in Range(FetchKinds(v)) : d[k].shape = "rejected"

\* safeData: the body of a fulfilled request, null for a rejected one
SafeData(settled) == IF settled.shape = "rejected" THEN NullData ELSE settled

\* value[id] is truthy: an array (or a string) has the index id when it is
\* long enough, an object has the key id when it is keyed by that club id
\* (array elements and object values are records)
HasKey(value, id) ==
  \/ value.shape \in {"array", "string"} /\ id >= 0 /\ id < value.n
  \/ value.shape = "object" /\ id > 0 /\ value.key = id

\* What clubInfo is made of: nothing (null or undefined), the value found
\* under an index or key of the response, or the response as it is.
Nothing == [from |-> "nothing", key |-> 0]

Item(k) == [from |-> "item", key |-> k]

Whole == [from |-> "whole", key |-> 0]

\* clubInfo / info, from the body of the /clubs/info response
\*   v2: Array.isArray(infoRaw) ? infoRaw[0] || null
\*       : infoRaw && typeof infoRaw === 'object' ? infoRaw[clubIdsParam] || infoRaw
\*       : null
\*   v3: (infoData && infoData[clubId]) || (Array.isArray(infoData) ? infoData[0] : infoData)
\*   v1: infoRes.data
ClubInfo(v, infoRaw, id) ==
  IF v = "v2"
    THEN IF infoRaw.shape = "array"
           THEN IF HasKey(infoRaw, 0) THEN Item(0) ELSE Nothing
         ELSE IF infoRaw.shape = "object"
           THEN IF HasKey(infoRaw, id) THEN Item(id) ELSE Whole
         ELSE Nothing
  ELSE IF v = "v3"
    THEN IF HasKey(infoRaw, id) THEN Item(id)
         ELSE IF infoRaw.shape = "array"
           THEN IF HasKey(infoRaw, 0) THEN Item(0) ELSE Nothing
         ELSE IF infoRaw.shape = "null" THEN Nothing ELSE Whole
  ELSE IF infoRaw.shape = "null" THEN Nothing ELSE Whole

\* What fetchClubData hands to its caller: it threw, or one value per request
\* it made -- the body its request returned, null where safeData found the
\* request rejected.
FetchClubData(v, d, id) ==
  [threw |-> FetchThrows(v, d),
   clubInfo |-> IF FetchThrows(v, d) THEN Nothing ELSE ClubInfo(v, SafeData(d["info"]), id),
   fields |-> [k \in AllKinds |->
                 IF FetchThrows(v, d) \/ k \notin Range(FetchKinds(v))
                   THEN [shape |-> "none", n |-> 0, key |-> 0]
                   ELSE SafeData(d[k])]]

\* fetchClubData has not returned
NoPayloads == [threw |-> FALSE, clubInfo |-> Nothing, fields |-> NoData]

\* isNonEmpty: false for null / undefined, for [] and for {}; true for every
\* other value, the empty string included
IsNonEmpty(value) ==
  IF value.shape = "null" THEN FALSE
  ELSE IF value.shape \in {"array", "object"} THEN value.n > 0
  ELSE TRUE

\* Object.values(statsPayload).some(isNonEmpty)
HasStats(d) == \E k \in StatsKinds : IsNonEmpty(SafeData(d[k]))

\* Object.values(matchesPayload).some(isNonEmpty)
HasMatches(d) == \E k \in MatchKinds : IsNonEmpty(SafeData(d[k]))

\* if (!hasStats && !hasMatches) throw insufficient_data   (v2 only)
InsufficientData(v, d) == v = "v2" /\ ~HasStats(d) /\ ~HasMatches(d)

(* ------------------------ the prompt sections --------------------------- *)

\* characters one record (a match, a member, a stats entry) takes in a JSON
\* serialization, separator included
RecordChars == 600

\* safeJsonStringify(statsPayload, 64000)
StatsBudget == 64000

\* safeJsonStringify(matchesPayload, 64000)
MatchesBudget == 64000

\* maxResultCount: 100 in the three match requests (v2)
MaxResultCount == 100

\* matchesArr.slice(0, 20) (v3), divMatches.slice(0, 20) (v4)
MatchSlice == 20

\* cupMatches.slice(0, 10) (v4)
CupSlice == 10

\* the keys of statsPayload and of matchesPayload, in source order
StatsKeys == <<"overallStats", "playoffAchievements", "membersCareer", "membersSeason">>

MatchKeys == <<"leagueMatches", "playoffMatches", "friendlyMatches">>

\* characters of "key": in a serialized object, with the comma before it
KeyChars(k) ==
  CASE k = "overallStats" -> 16
    [] k = "playoffAchievements" -> 23
    [] k = "membersCareer" -> 17
    [] k = "membersSeason" -> 17
    [] k = "leagueMatches" -> 17
    [] k = "playoffMatches" -> 18
    [] k = "friendlyMatches" -> 19
    [] OTHER -> 8

\* JSON.stringify(value).length
JsonLen(value) ==
  IF value.shape \in {"array", "object"} THEN 2 + value.n * RecordChars
  ELSE IF value.shape = "string" THEN 2 + value.n
  ELSE 4

\* the characters of a serialized payload object up to and including its
\* i-th key and value
RECURSIVE PayloadLen(_, _, _)
PayloadLen(d, keys, i) ==
  IF i = 0 THEN 1
  ELSE PayloadLen(d, keys, i - 1) + KeyChars(keys[i]) + JsonLen(SafeData(d[keys[i]]))

\* JSON.stringify({ k1: ..., k2: ... }).length
SectionLen(d, keys) == PayloadLen(d, keys, Len(keys)) + 1

\* The text a section of the prompt is made of: the first prefix characters of
\* a serialization that is len characters long, followed by appended further
\* characters.
Text(len, prefix, appended) == [len |-> len, prefix |-> prefix, appended |-> appended]

NoText == Text(0, 0, 0)

\* safeJsonStringify(obj, maxChars): s.length > maxChars ? s.slice(0, maxChars) : s
SafeJsonStringify(len, maxChars) ==
  IF len > maxChars THEN Text(len, maxChars, 0) ELSE Text(len, len, 0)

\* JSON.stringify(obj) (v1, v3)
JsonStringify(len) == Text(len, len, 0)

Min(a, b) == IF a < b THEN a ELSE b

\* the records of the i-th key of a payload object that lie wholly within the
\* first maxChars characters of its serialization
RecordsWithin(d, keys, i, maxChars) ==
  LET value == SafeData(d[keys[i]])
      start == PayloadLen(d, keys, i - 1) + KeyChars(keys[i]) + 1
      room == IF maxChars > start THEN (maxChars - start) \div RecordChars ELSE 0
  IN  IF value.shape = "array" THEN Min(value.n, room) ELSE 0

\* The stats and match-history sections of the prompt built from the fetched
\* data, and for each match type the number of its records, from the first
\* on, that the prompt contains.
\*   v2: the payload objects go through safeJsonStringify with their budgets
\*   v3: overall and matchesArr.slice(0, 20) go through JSON.stringify
\*   v1: overallStats and matches go through JSON.stringify as received
\*   v4: stats, divMatches.slice(0, 20) and cupMatches.slice(0, 10) go through
\*       JSON.stringify (matches: the two match texts together)
Prompt(v, d) ==
  IF v = "v2"
    THEN [stats |-> SafeJsonStringify(SectionLen(d, StatsKeys), StatsBudget),
          matches |-> SafeJsonStringify(SectionLen(d, MatchKeys), MatchesBudget),
          recs |-> [i \in DOMAIN MatchKeys |->
                      RecordsWithin(d, MatchKeys, i, MatchesBudget)]]
  ELSE IF v = "v4"
    THEN LET div == d["leagueMatches"]
             cup == d["playoffMatches"]
             recentDiv == IF div.shape = "array" THEN Min(div.n, MatchSlice) ELSE 0
             recentCup == IF cup.shape = "array" THEN Min(cup.n, CupSlice) ELSE 0
         IN  [stats |-> JsonStringify(JsonLen(d["overallStats"])),
              matches |-> JsonStringify(JsonLen(ArrayOf(recentDiv)) + JsonLen(ArrayOf(recentCup))),
              recs |-> [i \in DOMAIN MatchKeys |->
                          IF i = 1 THEN recentDiv ELSE IF i = 2 THEN recentCup ELSE 0]]
    ELSE LET league == d["leagueMatches"]
             kept == IF league.shape # "array" THEN 0
                     ELSE IF v = "v3" THEN Min(league.n, MatchSlice) ELSE league.n
         IN  [stats |-> JsonStringify(JsonLen(d["overallStats"])),
              matches |-> JsonStringify(
                            IF v = "v3" THEN JsonLen(ArrayOf(kept)) ELSE JsonLen(league)),
              recs |-> [i \in DOMAIN MatchKeys |-> IF i = 1 THEN kept ELSE 0]]

NoPrompt == [stats |-> NoText, matches |-> NoText, recs |-> [i \in DOMAIN MatchKeys |-> 0]]

\* what openai.responses.create comes back with
SummaryOutcomes == {"text", "empty", "insufficient_quota", "context_length_exceeded", "error"}

FailureMessageSilent(v, code) == "none"

\* the message the catch block of a report shows for an error: by err.code
\* for the three codes it tests, the generic message for every other error
\* (the Error('OPENAI_API_KEY is not set.') and a failed request have no code)
FailureMessage(v, code) ==
  IF v # "v2" THEN "fail_generic"
  ELSE IF code = "insufficient_quota" THEN "fail_quota"
  ELSE IF code = "context_length_exceeded" THEN "fail_context"
  ELSE IF code = "insufficient_data" THEN "fail_data"
  ELSE "fail_generic"

(* ------------------------- computeRecord (v2) -------------------------- *)

\* A match record, reduced to what computeRecord reads: mine is
\* Number(m.clubs[clubId].goals) || 0, or -1 when the record has no entry
\* for clubId (m is null, has no clubs, or clubs[clubId] is missing); opp is
\* the goals of the other club of m.clubs, or -1 when there is no other key.
Match(mine, opp) == [mine |-> mine, opp |-> opp]

MatchRecords ==
  {Match(-1, -1)} \cup {Match(a, b) : a \in 0..MaxGoals, b \in -1..MaxGoals}

\* a match payload: an array of match records, or a value that is no array
\* (null for a failed request, an object, a string)
MatchArray(ms) == [isArray |-> TRUE, ms |-> ms]

NotAnArray == [isArray |-> FALSE, ms |-> <<>>]

Record(w, d, l, gf, ga) ==
  [isNull |-> FALSE, played |-> w + d + l, wins |-> w, draws |-> d, losses |-> l,
   goalsFor |-> gf, goalsAgainst |-> ga, goalDiff |-> gf - ga]

NullRecord ==
  [isNull |-> TRUE, played |-> 0, wins |-> 0, draws |-> 0, losses |-> 0,
   goalsFor |-> 0, goalsAgainst |-> 0, goalDiff |-> 0]

\* the loop of computeRecord over the records from the i-th on
RECURSIVE ComputeFrom(_, _, _, _, _, _, _)
ComputeFrom(ms, i, w, d, l, gf, ga) ==
  IF i > Len(ms) THEN Record(w, d, l, gf, ga)
  ELSE IF ms[i].mine < 0 THEN ComputeFrom(ms, i + 1, w, d, l, gf, ga)
  ELSE LET g == ms[i].mine
           a == IF ms[i].opp >= 0 THEN ms[i].opp ELSE 0
       IN  IF g > a THEN ComputeFrom(ms, i + 1, w + 1, d, l, gf + g, ga + a)
           ELSE IF g < a THEN ComputeFrom(ms, i + 1, w, d, l + 1, gf + g, ga + a)
           ELSE ComputeFrom(ms, i + 1, w, d + 1, l, gf + g, ga + a)

ComputeRecordCountsAll(matches) ==
  IF ~matches.isArray THEN NullRecord
  ELSE LET r == ComputeFrom(matches.ms, 1, 0, 0, 0, 0, 0)
           skipped == Len(matches.ms) - r.played
       IN  Record(r.wins, r.draws + skipped, r.losses, r.goalsFor, r.goalsAgainst)

\* computeRecord(matches, clubId)
ComputeRecord(matches) ==
  IF ~matches.isArray THEN NullRecord
  ELSE ComputeFrom(matches.ms, 1, 0, 0, 0, 0, 0)

\* no match payload has been received
NoSample == [k \in MatchKinds |-> NotAnArray]

NoRecords == [k \in MatchKinds |-> NullRecord]

(* ------------------------------ state ---------------------------------- *)

VARIABLES
  variant,              \* which file of the repository is running
  openaiApiKey,         \* process.env.OPENAI_API_KEY is set
  pendingScoutChoices,  \* the Map of pending /scoutclub selections
  pendingMatchesChoices,\* the Map of pending /clubmatches selections (v2)
  inter,                \* the interaction handlers in progress, with their locals
  hist                  \* per user: history of the pending entry (for the properties)

vars == <<variant, openaiApiKey, pendingScoutChoices, pendingMatchesChoices, inter, hist>>

NoResponse == [st |-> "idle", cands |-> <<>>]

\* a handler slot with no interaction running in it
IdleInteraction ==
  [pc |-> "idle", kind |-> "none", user |-> "none", query |-> <<>>,
   resp |-> [p \in AllPlatforms |-> NoResponse],
   results |-> <<>>, matches |-> <<>>,
   chosen |-> NoCandidate, fetched |-> NoCandidate, data |-> NoData, payloads |-> NoPayloads,
   prompt |-> NoPrompt, summarized |-> FALSE, summary |-> "none", err |-> "none",
   outcome |-> "none",
   menu |-> <<>>, queried |-> <<>>, sample |-> NoSample, records |-> NoRecords,
   found |-> FALSE, inRange |-> FALSE, want |-> NoCandidate, item |-> NoCandidate,
   fromOld |-> FALSE, afterResolve |-> FALSE, issuedAfter |-> {}]

\* replacedLen: length of the list that the latest store overwrote (0: none);
\* resolved: selections accepted since the latest store; storer: the handler
\* whose search made the latest store, while it has not returned
NoHistory == [replacedLen |-> 0, resolved |-> 0, storer |-> "none"]

Init ==
  /\ variant \in Variants
  /\ openaiApiKey \in BOOLEAN
  /\ pendingScoutChoices = {}
  /\ pendingMatchesChoices = {}
  /\ inter = [h \in Handlers |-> IdleInteraction]
  /\ hist = [u \in Users |-> NoHistory]

\* An arriving interaction runs in the first free handler slot.
FreeSlot(h) ==
  /\ inter[h].pc = "idle"
  /\ \A i \in DOMAIN HandlerOrder :
       HandlerOrder[i] = h => \A j \in 1..(i - 1) : inter[HandlerOrder[j]].pc # "idle"

(* --------------------------- report steps ------------------------------ *)

StartReportNoKeyCheck(r, c) == [r EXCEPT !.chosen = c, !.fetched = c, !.pc = "fetching"]

\* createScoutingReportFromId up to its first await: the key check, then
\* fetchClubData issuing its requests for (platform, clubId)
StartReport(r, c) ==
  IF ~openaiApiKey
    THEN [r EXCEPT !.chosen = c, !.err = "no_key",
                   !.outcome = FailureMessage(variant, "no_key"), !.pc = "done"]
    ELSE [r EXCEPT !.chosen = c, !.fetched = c, !.pc = "fetching"]

\* the detail requests have settled: fetchClubData returns, the data check
\* runs and the prompt goes to OpenAI
FetchSettled(h, d) ==
  /\ inter[h].pc = "fetching"
  /\ inter' = [inter EXCEPT ![h] =
       IF FetchThrows(variant, d)
         THEN [@ EXCEPT !.data = d, !.payloads = FetchClubData(variant, d, inter[h].fetched.clubId),
                        !.err = "request_failed",
                        !.outcome = FailureMessage(variant, "request_failed"), !.pc = "done"]
       ELSE IF InsufficientData(variant, d)
         THEN [@ EXCEPT !.data = d, !.payloads = FetchClubData(variant, d, inter[h].fetched.clubId),
                        !.err = "insufficient_data",
                        !.outcome = FailureMessage(variant, "insufficient_data"),
                        !.pc = "done"]
       ELSE [@ EXCEPT !.data = d, !.payloads = FetchClubData(variant, d, inter[h].fetched.clubId), !.prompt = Prompt(variant, d),
                      !.summarized = TRUE, !.pc = "summarizing"]]
  /\ UNCHANGED <<variant, openaiApiKey, pendingScoutChoices, pendingMatchesChoices, hist>>

\* openai.responses.create has settled: the report (or the failure message)
\* is written to the reply
SummarySettled(h, o) ==
  /\ inter[h].pc = "summarizing"
  /\ inter' = [inter EXCEPT ![h] =
       [@ EXCEPT !.pc = "done",
                 !.summary = o,
                 !.err = IF o \in {"text", "empty"} THEN "none" ELSE o,
                 !.outcome = IF o = "text" THEN "report"
                             ELSE IF o = "empty" THEN "report_placeholder"
                             ELSE FailureMessage(variant, o)]]
  /\ UNCHANGED <<variant, openaiApiKey, pendingScoutChoices, pendingMatchesChoices, hist>>

(* --------------------------- /scoutclub -------------------------------- *)

AfterSearchStoresSingle(h, r, m) ==
  IF Len(m) = 0
    THEN /\ inter' = [inter EXCEPT ![h] =
               [r EXCEPT !.matches = m, !.outcome = "nomatch", !.pc = "done"]]
         /\ UNCHANGED <<pendingScoutChoices, hist>>
    ELSE /\ pendingScoutChoices' = MapSet(pendingScoutChoices, r.user, r.query, Top(m))
         /\ inter' = [inter EXCEPT ![h] =
               IF Len(m) = 1 THEN StartReport([r EXCEPT !.matches = m], m[1])
               ELSE [r EXCEPT !.matches = m, !.menu = Menu(Top(m)),
                              !.outcome = "menu", !.pc = "done"]]
         /\ hist' = [hist EXCEPT ![r.user] =
               [replacedLen |-> Len(MapGet(pendingScoutChoices, r.user).results),
                resolved |-> 0, storer |-> h]]

\* The /scoutclub handler from the return of the search to its next await:
\* no match, one match (straight to the report) or a stored selection menu.
AfterSearch(h, r, m) ==
  LET u == r.user
  IN  IF Len(m) = 0
        THEN /\ inter' = [inter EXCEPT ![h] =
                   [r EXCEPT !.matches = m, !.outcome = "nomatch", !.pc = "done"]]
             /\ UNCHANGED <<pendingScoutChoices, hist>>
      ELSE IF Len(m) = 1
        THEN /\ inter' = [inter EXCEPT ![h] = StartReport([r EXCEPT !.matches = m], m[1])]
             /\ UNCHANGED <<pendingScoutChoices, hist>>
      ELSE /\ pendingScoutChoices' = MapSet(pendingScoutChoices, u, r.query, Top(m))
           /\ inter' = [inter EXCEPT ![h] =
                   [r EXCEPT !.matches = m, !.menu = Menu(Top(m)),
                             !.outcome = "menu", !.pc = "done"]]
           /\ hist' = [hist EXCEPT ![u] =
                   [replacedLen |-> Len(MapGet(pendingScoutChoices, u).results),
                    resolved |-> 0, storer |-> h]]

\* a /scoutclub command with a club name arrives: deferReply, then the search
\* is called, which returns [] at once for an empty query and otherwise
\* issues one request per platform
ScoutClub(h, u, q) ==
  /\ variant # "v4"
  /\ FreeSlot(h)
  /\ LET r == [IdleInteraction EXCEPT
                 !.kind = "scoutclub", !.user = u, !.query = q,
                 !.issuedAfter = {g \in Handlers \ {h} :
                                    /\ inter[g].pc = "searching"
                                    /\ inter[g].kind = "scoutclub"
                                    /\ inter[g].user = u}]
     IN  IF variant = "v1" /\ q = <<>>
           THEN /\ inter' = [inter EXCEPT ![h] =
                      [r EXCEPT !.outcome = "need_arg", !.pc = "done"]]
                /\ UNCHANGED <<pendingScoutChoices, hist>>
         ELSE IF Trim(q) = <<>>
           THEN AfterSearch(h, r, <<>>)
         ELSE /\ inter' = [inter EXCEPT ![h] =
                    [r EXCEPT !.pc = "searching",
                              !.resp = [p \in AllPlatforms |->
                                 IF p \in Range(SearchPlatforms(variant))
                                   THEN [st |-> "inflight", cands |-> <<>>]
                                   ELSE NoResponse]]]
              /\ UNCHANGED <<pendingScoutChoices, hist>>
  /\ UNCHANGED <<variant, openaiApiKey, pendingMatchesChoices>>

\* v1 only: /scoutclub with the id option skips the search
ScoutClubById(h, u, id) ==
  /\ variant = "v1"
  /\ FreeSlot(h)
  /\ inter' = [inter EXCEPT ![h] =
       StartReport([IdleInteraction EXCEPT !.kind = "scoutclub", !.user = u],
                   Candidate(PLATFORM, id))]
  /\ UNCHANGED <<variant, openaiApiKey, pendingScoutChoices, pendingMatchesChoices, hist>>

(* --------------------------- /clubmatches (v2) ------------------------- *)

\* summarizeMatchesForClub up to its await: fetchClubData issues its
\* requests for (platform, clubId); no OpenAI key is needed
StartMatches(r, c) == [r EXCEPT !.chosen = c, !.fetched = c, !.pc = "fetching_matches"]

AfterMatchesSearchNoEmptyCheck(h, r, m) ==
  IF Len(m) = 1
    THEN /\ inter' = [inter EXCEPT ![h] = StartMatches([r EXCEPT !.matches = m], m[1])]
         /\ UNCHANGED <<pendingScoutChoices, pendingMatchesChoices, hist>>
    ELSE /\ pendingMatchesChoices' = MapSet(pendingMatchesChoices, r.user, r.query, Top(m))
         /\ inter' = [inter EXCEPT ![h] =
               [r EXCEPT !.matches = m, !.menu = Menu(Top(m)),
                         !.outcome = "menu", !.pc = "done"]]
         /\ UNCHANGED <<pendingScoutChoices, hist>>

AfterMatchesSearchSharedMap(h, r, m) ==
  IF Len(m) = 0
    THEN /\ inter' = [inter EXCEPT ![h] =
               [r EXCEPT !.matches = m, !.outcome = "nomatch", !.pc = "done"]]
         /\ UNCHANGED <<pendingScoutChoices, pendingMatchesChoices, hist>>
  ELSE IF Len(m) = 1
    THEN /\ inter' = [inter EXCEPT ![h] = StartMatches([r EXCEPT !.matches = m], m[1])]
         /\ UNCHANGED <<pendingScoutChoices, pendingMatchesChoices, hist>>
  ELSE /\ pendingScoutChoices' = MapSet(pendingScoutChoices, r.user, r.query, Top(m))
       /\ inter' = [inter EXCEPT ![h] =
               [r EXCEPT !.matches = m, !.menu = Menu(Top(m)),
                         !.outcome = "menu", !.pc = "done"]]
       /\ UNCHANGED <<pendingMatchesChoices, hist>>

\* The /clubmatches handler from the return of the search to its next
\* await: no match, one match (straight to the summary) or a stored menu.
AfterMatchesSearch(h, r, m) ==
  IF Len(m) = 0
    THEN /\ inter' = [inter EXCEPT ![h] =
               [r EXCEPT !.matches = m, !.outcome = "nomatch", !.pc = "done"]]
         /\ UNCHANGED <<pendingScoutChoices, pendingMatchesChoices, hist>>
  ELSE IF Len(m) = 1
    THEN /\ inter' = [inter EXCEPT ![h] = StartMatches([r EXCEPT !.matches = m], m[1])]
         /\ UNCHANGED <<pendingScoutChoices, pendingMatchesChoices, hist>>
  ELSE /\ pendingMatchesChoices' = MapSet(pendingMatchesChoices, r.user, r.query, Top(m))
       /\ inter' = [inter EXCEPT ![h] =
               [r EXCEPT !.matches = m, !.menu = Menu(Top(m)),
                         !.outcome = "menu", !.pc = "done"]]
       /\ UNCHANGED <<pendingScoutChoices, hist>>

\* a /clubmatches command arrives: deferReply, then the search is called
ClubMatches(h, u, q) ==
  /\ variant = "v2"
  /\ FreeSlot(h)
  /\ LET r == [IdleInteraction EXCEPT !.kind = "clubmatches", !.user = u, !.query = q]
     IN  IF Trim(q) = <<>>
           THEN AfterMatchesSearch(h, r, <<>>)
         ELSE /\ inter' = [inter EXCEPT ![h] =
                    [r EXCEPT !.pc = "searching",
                              !.resp = [p \in AllPlatforms |->
                                 IF p \in Range(SearchPlatforms(variant))
                                   THEN [st |-> "inflight", cands |-> <<>>]
                                   ELSE NoResponse]]]
              /\ UNCHANGED <<pendingScoutChoices, pendingMatchesChoices, hist>>
  /\ UNCHANGED <<variant, openaiApiKey>>

CallbackRejectsOnError(v, out) == out.kind # "response"

\* try { ... } catch (err) { console.error(...) } around each request and
\* its parsing: no exception leaves the callback
CallbackRejects(v, out) == FALSE

\* One search request settles.  Its candidates are pushed onto the shared
\* results array.  When it is the last one, Promise.all resolves, the search
\* deduplicates and returns, and the handler runs on to its next await.
SearchSettled(h, p, out) ==
  /\ inter[h].pc = "searching"
  /\ inter[h].resp[p].st = "inflight"
  /\ LET cands == ParseOutcome(variant, p, out)
         ok == out.kind = "response" /\ out.status = 200
         r == [inter[h] EXCEPT
                 !.results = @ \o cands,
                 !.resp[p] = [st |-> IF ok THEN "ok" ELSE "failed", cands |-> cands]]
     IN  IF CallbackRejects(variant, out)
           THEN /\ inter' = [inter EXCEPT ![h] =
                      [r EXCEPT !.outcome = "search_threw", !.pc = "done"]]
                /\ UNCHANGED <<pendingScoutChoices, pendingMatchesChoices, hist>>
         ELSE IF \E p2 \in AllPlatforms : r.resp[p2].st = "inflight"
           THEN /\ inter' = [inter EXCEPT ![h] = r]
                /\ UNCHANGED <<pendingScoutChoices, pendingMatchesChoices, hist>>
         ELSE IF r.kind = "clubmatches"
           THEN AfterMatchesSearch(h, r, SearchResult(variant, r.results))
         ELSE /\ AfterSearch(h, r, SearchResult(variant, r.results))
              /\ UNCHANGED pendingMatchesChoices
  /\ UNCHANGED <<variant, openaiApiKey>>

(* --------------------------- scoutclub_pick ---------------------------- *)

AfterPickKeepsEntry(map, u) == map

\* the pending map after a selection has been accepted
AfterPick(map, u) == MapDelete(map, u)

\* A scoutclub_pick selection arrives: lookup, index check, delete, then
\* deferUpdate / editReply and the report.  The locals state and index are
\* dead once chosen is known; what the properties need of them is kept in
\* found (an entry was stored), inRange (0 <= index < its length) and want
\* (the stored candidate at that position).  The flag old marks a choice made
\* from the menu that the latest search of the user replaced.
ScoutClubPick(h, u, val, old) ==
  /\ variant # "v4"
  /\ FreeSlot(h)
  /\ old => \E i \in 1..hist[u].replacedLen : val = ToStr(i - 1)
  /\ LET state == MapGet(pendingScoutChoices, u)
         index == ParseInt(val)
         chosen == ArrayAt(state.results, index)
         valid == ~index.nan /\ index.n \in 0..(Len(state.results) - 1)
         r == [IdleInteraction EXCEPT
                 !.kind = "scoutclub_pick", !.user = u,
                 !.found = MapHas(pendingScoutChoices, u),
                 !.inRange = valid,
                 !.want = IF valid THEN state.results[index.n + 1] ELSE NoCandidate,
                 !.item = MenuItem(state, val),
                 !.fromOld = old, !.afterResolve = hist[u].resolved > 0]
     IN  IF state = NoEntry
           THEN /\ inter' = [inter EXCEPT ![h] =
                      [r EXCEPT !.outcome = "nopending", !.pc = "done"]]
                /\ UNCHANGED <<pendingScoutChoices, hist>>
         ELSE IF chosen = NoCandidate
           THEN /\ inter' = [inter EXCEPT ![h] =
                      [r EXCEPT !.outcome = "invalid", !.pc = "done"]]
                /\ UNCHANGED <<pendingScoutChoices, hist>>
         ELSE /\ pendingScoutChoices' = AfterPick(pendingScoutChoices, u)
              /\ inter' = [inter EXCEPT ![h] = StartReport(r, chosen)]
              /\ hist' = [hist EXCEPT ![u].resolved = IF @ < 2 THEN @ + 1 ELSE 2]
  /\ UNCHANGED <<variant, openaiApiKey, pendingMatchesChoices>>

(* ------------------- /scoutclub, sequential (part_001) ----------------- *)

\* what one getClubIdByName(platform, clubName) call ends with: it throws, or
\* it returns a club id (0: a falsy value -- null, undefined, 0 or '')
LookupThrew == [kind |-> "threw", clubId |-> 0]

LookupValue(id) == [kind |-> "value", clubId |-> id]

LookupOutcomes == {LookupThrew, LookupValue(0), LookupValue(1)}

\* A /scoutclub command arrives (part_001): deferReply, then
\* createScoutingReport checks the key and starts the lookup on the first
\* platform.
CreateScoutingReport(h, u, q) ==
  /\ variant = "v4"
  /\ FreeSlot(h)
  /\ LET r == [IdleInteraction EXCEPT !.kind = "scoutclub", !.user = u, !.query = q]
     IN  inter' = [inter EXCEPT ![h] =
           IF ~openaiApiKey
             THEN [r EXCEPT !.err = "no_key",
                            !.outcome = FailureMessage(variant, "no_key"), !.pc = "done"]
             ELSE [r EXCEPT !.pc = "looking_up"]]
  /\ UNCHANGED <<variant, openaiApiKey, pendingScoutChoices, pendingMatchesChoices, hist>>

\* getClubIdByName has settled for the platform being tried: a club id ends
\* the loop and the four detail requests are issued; a throw or a falsy
\* value moves on to the next platform; after the last platform the
\* 'not found' error is thrown into the handler's catch block.
GetClubIdByNameSettled(h, res) ==
  /\ inter[h].pc = "looking_up"
  /\ LET platform == PLATFORMS[Len(inter[h].queried) + 1]
         r == [inter[h] EXCEPT !.queried = Append(@, [platform |-> platform, res |-> res])]
     IN  inter' = [inter EXCEPT ![h] =
           IF res.kind = "value" /\ res.clubId # 0
             THEN [r EXCEPT !.chosen = Candidate(platform, res.clubId),
                            !.fetched = Candidate(platform, res.clubId),
                            !.pc = "fetching"]
           ELSE IF Len(r.queried) = Len(PLATFORMS)
             THEN [r EXCEPT !.err = "not_found",
                            !.outcome = FailureMessage(variant, "not_found"), !.pc = "done"]
           ELSE r]
  /\ UNCHANGED <<variant, openaiApiKey, pendingScoutChoices, pendingMatchesChoices, hist>>

(* --------------------------- clubmatches_pick -------------------------- *)

\* A clubmatches_pick selection arrives: lookup, index check, delete, then
\* deferUpdate / editReply and the match summary.
ClubMatchesPick(h, u, val) ==
  /\ variant = "v2"
  /\ FreeSlot(h)
  /\ LET state == MapGet(pendingMatchesChoices, u)
         index == ParseInt(val)
         chosen == ArrayAt(state.results, index)
         valid == ~index.nan /\ index.n \in 0..(Len(state.results) - 1)
         r == [IdleInteraction EXCEPT
                 !.kind = "clubmatches_pick", !.user = u,
                 !.found = MapHas(pendingMatchesChoices, u),
                 !.inRange = valid,
                 !.want = IF valid THEN state.results[index.n + 1] ELSE NoCandidate,
                 !.item = MenuItem(state, val)]
     IN  IF state = NoEntry
           THEN /\ inter' = [inter EXCEPT ![h] =
                      [r EXCEPT !.outcome = "nopending", !.pc = "done"]]
                /\ UNCHANGED pendingMatchesChoices
         ELSE IF chosen = NoCandidate
           THEN /\ inter' = [inter EXCEPT ![h] =
                      [r EXCEPT !.outcome = "invalid", !.pc = "done"]]
                /\ UNCHANGED pendingMatchesChoices
         ELSE /\ pendingMatchesChoices' = AfterPick(pendingMatchesChoices, u)
              /\ inter' = [inter EXCEPT ![h] = StartMatches(r, chosen)]
  /\ UNCHANGED <<variant, openaiApiKey, pendingScoutChoices, hist>>

\* the requests of fetchClubData have settled (Promise.allSettled never
\* rejects): the three records are computed and the summary is written
MatchesSettled(h, d) ==
  /\ inter[h].pc = "fetching_matches"
  /\ inter' = [inter EXCEPT ![h] =
       [@ EXCEPT !.sample = d,
                 !.records = [k \in MatchKinds |-> ComputeRecord(d[k])],
                 !.outcome = "matches_summary", !.pc = "done"]]
  /\ UNCHANGED <<variant, openaiApiKey, pendingScoutChoices, pendingMatchesChoices, hist>>

\* the handler has returned: its slot is free for the next interaction
Return(h) ==
  /\ inter[h].pc = "done"
  /\ inter' = [g \in Handlers |->
       IF g = h THEN IdleInteraction
       ELSE [inter[g] EXCEPT !.issuedAfter = @ \ {h}]]
  /\ hist' = [u \in Users |->
       IF hist[u].storer = h THEN [hist[u] EXCEPT !.storer = "none"] ELSE hist[u]]
  /\ UNCHANGED <<variant, openaiApiKey, pendingScoutChoices, pendingMatchesChoices>>

\* search outcomes of overlapping commands: one club, several clubs (failed
\* requests and the other response shapes are covered by Next)
FewOutcomes ==
  {[kind |-> "response", status |-> 200, body |-> IdKeyed(FlatRows(1))],
   [kind |-> "response", status |-> 200, body |-> IdKeyed(FlatRows(OverlapRows))]}

\* representative detail outcomes: every request answered, every request failed
FewDetails(v) ==
  {Detail({}, Range(FetchKinds(v))), Detail(Range(FetchKinds(v)), {})}

\* Interactions handled one at a time (slot h1 only), for every response
\* shape.
Next ==
  \/ \E q \in Queries : ScoutClub("h1", "u1", q)
  \/ ScoutClubById("h1", "u1", 1)
  \/ \E p \in AllPlatforms, out \in SearchOutcomes : SearchSettled("h1", p, out)
  \/ \E val \in Values, old \in BOOLEAN : ScoutClubPick("h1", "u1", val, old)
  \/ \E d \in DetailOutcomes(variant) : FetchSettled("h1", d)
  \/ \E o \in SummaryOutcomes : SummarySettled("h1", o)
  \/ Return("h1")

Spec == Init /\ [][Next]_vars

\* Two interactions of one user in progress at once, with representative
\* responses.
NextOverlap ==
  \/ \E h \in Handlers, q \in OverlapQueries : ScoutClub(h, "u1", q)
  \/ \E h \in Handlers : ScoutClubById(h, "u1", 1)
  \/ \E h \in Handlers, p \in AllPlatforms, out \in FewOutcomes : SearchSettled(h, p, out)
  \/ \E h \in Handlers, val \in Values, old \in BOOLEAN : ScoutClubPick(h, "u1", val, old)
  \/ \E h \in Handlers, d \in FewDetails(variant) : FetchSettled(h, d)
  \/ \E h \in Handlers, o \in {"text", "error"} : SummarySettled(h, o)
  \/ \E h \in Handlers : Return(h)

SpecOverlap == Init /\ [][NextOverlap]_vars

\* search outcomes of the two-command runs: a failed request, one club
\* (first platform only), MaxRows clubs -- enough for no match, a single
\* match, and menus up to and beyond the menu size
CommandOutcomes(p) ==
  {[kind |-> "network_error", status |-> 0, body |-> NullBody],
   [kind |-> "response", status |-> 200, body |-> IdKeyed(FlatRows(MaxRows))]}
    \cup (IF p = FC_PLATFORMS[1]
            THEN {[kind |-> "response", status |-> 200, body |-> IdKeyed(FlatRows(1))]}
            ELSE {})

\* Both commands and both menus, used by two users one interaction at a time.
NextCommands ==
  \/ \E u \in Users : ScoutClub("h1", u, <<"a">>)
  \/ ScoutClubById("h1", "u1", 1)
  \/ \E p \in AllPlatforms : \E out \in CommandOutcomes(p) : SearchSettled("h1", p, out)
  \/ \E val \in Values : ScoutClubPick("h1", "u1", val, FALSE)
  \/ \E d \in FewDetails(variant) : FetchSettled("h1", d)
  \/ SummarySettled("h1", "text")
  \/ ClubMatches("h1", "u1", <<"a">>)
  \/ \E val \in Values : ClubMatchesPick("h1", "u1", val)
  \/ MatchesSettled("h1", [k \in MatchKinds |-> MatchArray(<<>>)])
  \/ Return("h1")

SpecCommands == Init /\ [][NextCommands]_vars

\* record counts around the slice size, the requested maximum and the budget
RecordCounts ==
  {1, MatchSlice, MatchSlice + 1, MaxResultCount, MaxResultCount + 1,
   (MatchesBudget \div RecordChars) + 1}

\* the bodies one detail request is answered with in the report runs
ReportValues ==
  {RejectedRequest, NullData, ArrayOf(0), ObjectOf(0), StringOf(0), ObjectOf(1),
   KeyedBy(1), KeyedBy(2)}
    \cup {ArrayOf(n) : n \in RecordCounts}

\* detail outcomes of the report runs: every request answered alike (null,
\* or one record) except one
ReportDetails(v) ==
  {[k \in AllKinds |-> IF k = k0 THEN x ELSE IF k \in Range(FetchKinds(v)) THEN b ELSE NullData]
     : k0 \in Range(FetchKinds(v)), x \in ReportValues, b \in {NullData, ArrayOf(1)}}

\* search outcomes of the report runs: a failed request or one club
ReportSearchOutcomes(p) ==
  {[kind |-> "network_error", status |-> 0, body |-> NullBody]}
    \cup (IF p = FC_PLATFORMS[1]
            THEN {[kind |-> "response", status |-> 200, body |-> ArrayBody(EaRows(1))]}
            ELSE {})

\* One report at a time for a club found alone (in part_001: looked up by
\* name), for every shape of the data.
NextReport ==
  \/ ScoutClub("h1", "u1", <<"a">>)
  \/ CreateScoutingReport("h1", "u1", <<"a">>)
  \/ \E res \in LookupOutcomes : GetClubIdByNameSettled("h1", res)
  \/ ScoutClubById("h1", "u1", 1)
  \/ \E p \in AllPlatforms : \E out \in ReportSearchOutcomes(p) : SearchSettled("h1", p, out)
  \/ \E d \in ReportDetails(variant) : FetchSettled("h1", d)
  \/ \E o \in SummaryOutcomes : SummarySettled("h1", o)
  \/ Return("h1")

SpecReport == Init /\ [][NextReport]_vars

\* the match histories of the /clubmatches runs
RECURSIVE MatchSeqs(_)
MatchSeqs(n) ==
  IF n = 0 THEN {<<>>}
  ELSE LET shorter == MatchSeqs(n - 1)
       IN  shorter \cup {Append(ms, m) : ms \in {x \in shorter : Len(x) = n - 1},
                                          m \in MatchRecords}

\* the league payload takes every modelled value while the playoff and
\* friendly payloads are no arrays, and the other way round with one lost
\* match as the league payload
MatchSamples ==
  {[k \in MatchKinds |-> IF k = "leagueMatches" THEN MatchArray(ms) ELSE NotAnArray]
     : ms \in MatchSeqs(MaxMatches)}
    \cup {[k \in MatchKinds |-> IF k = "leagueMatches" THEN NotAnArray ELSE b]
            : b \in {NotAnArray, MatchArray(<<>>), MatchArray(<<Match(0, 1)>>)}}

\* One /clubmatches command at a time for a club found alone, for every
\* match history.
NextMatches ==
  \/ ClubMatches("h1", "u1", <<"a">>)
  \/ \E p \in AllPlatforms : \E out \in ReportSearchOutcomes(p) : SearchSettled("h1", p, out)
  \/ inter["h1"].pc = "fetching_matches" /\ \E d \in MatchSamples : MatchesSettled("h1", d)
  \/ Return("h1")

SpecMatches == Init /\ [][NextMatches]_vars

\* Every command and selection of one user, one interaction at a time, in
\* all four variants.
NextLive ==
  \/ ScoutClub("h1", "u1", <<"a">>)
  \/ ScoutClubById("h1", "u1", 1)
  \/ CreateScoutingReport("h1", "u1", <<"a">>)
  \/ \E res \in LookupOutcomes : GetClubIdByNameSettled("h1", res)
  \/ \E p \in AllPlatforms : \E out \in CommandOutcomes(p) : SearchSettled("h1", p, out)
  \/ \E val \in Values : ScoutClubPick("h1", "u1", val, FALSE)
  \/ inter["h1"].pc = "fetching" /\ \E d \in FewDetails(variant) : FetchSettled("h1", d)
  \/ \E o \in SummaryOutcomes : SummarySettled("h1", o)
  \/ ClubMatches("h1", "u1", <<"a">>)
  \/ \E val \in Values : ClubMatchesPick("h1", "u1", val)
  \/ MatchesSettled("h1", [k \in MatchKinds |-> MatchArray(<<>>)])
  \/ Return("h1")

\* Every EA request and the OpenAI call of a handler in progress settles.
Settles ==
  \/ \E res \in LookupOutcomes : GetClubIdByNameSettled("h1", res)
  \/ \E p \in AllPlatforms : \E out \in CommandOutcomes(p) : SearchSettled("h1", p, out)
  \/ inter["h1"].pc = "fetching" /\ \E d \in FewDetails(variant) : FetchSettled("h1", d)
  \/ \E o \in SummaryOutcomes : SummarySettled("h1", o)
  \/ MatchesSettled("h1", [k \in MatchKinds |-> MatchArray(<<>>)])

SpecLive == Init /\ [][NextLive]_vars /\ WF_vars(Settles)

(* ------------------------------ properties ----------------------------- *)

\* the search of handler h has returned to the /scoutclub handler
Searched(h) ==
  /\ inter[h].kind = "scoutclub"
  /\ inter[h].pc \notin {"idle", "searching"}
  /\ inter[h].outcome \notin {"need_arg", "search_threw"}
  /\ \E p \in AllPlatforms : inter[h].resp[p].st # "idle"

Keys(seq) == {DedupKey(seq[i]) : i \in DOMAIN seq}

FirstIndex(seq, k) == CHOOSE i \in DOMAIN seq :
  DedupKey(seq[i]) = k /\ \A j \in 1..(i - 1) : DedupKey(seq[j]) # k

\* C1: the sequence returned by searchClubsAcrossPlatforms holds each
\* (fcPlatform, clubId) pair of the collected results exactly once, in the
\* order of the pairs' first occurrence in the collected results.
C1_DedupFirstOccurrence ==
  \A h \in Handlers :
    (variant = "v2" /\ Searched(h)) =>
      LET rs == inter[h].results
          m == inter[h].matches
      IN  /\ \A i, j \in DOMAIN m : i # j => DedupKey(m[i]) # DedupKey(m[j])
          /\ Keys(m) = Keys(rs)
          /\ \A i, j \in DOMAIN m :
               i < j => FirstIndex(rs, DedupKey(m[i])) < FirstIndex(rs, DedupKey(m[j]))

\* a search whose collected results repeat a pair and still leave two clubs
C1_Witness ==
  \E h \in Handlers :
    /\ variant = "v2" /\ Searched(h)
    /\ Len(inter[h].matches) >= 2
    /\ Len(inter[h].matches) < Len(inter[h].results)

\* C2: the returned sequence lists every common-gen5 candidate before every
\* common-gen4 candidate, whatever the order in which the responses arrive.
C2_PartitionOrder ==
  \A h \in Handlers :
    (variant = "v2" /\ Searched(h)) =>
      \A i, j \in DOMAIN inter[h].matches :
        i < j => ~(/\ inter[h].matches[i].fcPlatform = FC_PLATFORMS[2]
                   /\ inter[h].matches[j].fcPlatform = FC_PLATFORMS[1])

WhitespaceOnly(q) == \A i \in DOMAIN q : q[i] = " "

\* the search routine of the variant was called by handler h: a /scoutclub
\* command that neither lacked both options nor took the id option (the only
\* path on which a club is chosen with no match listed)
SearchCalled(h) ==
  /\ inter[h].kind = "scoutclub"
  /\ inter[h].pc # "idle"
  /\ inter[h].outcome # "need_arg"
  /\ (inter[h].chosen = NoCandidate \/ inter[h].matches # <<>>)

\* C3: a search with an empty or whitespace-only query returns an empty
\* sequence and issues no HTTP request, in each of the three search routines.
C3_EmptyQueryNoRequests ==
  \A h \in Handlers :
    (SearchCalled(h) /\ WhitespaceOnly(inter[h].query)) =>
      /\ \A p \in AllPlatforms : inter[h].resp[p].st = "idle"
      /\ inter[h].pc = "done"
      /\ inter[h].matches = <<>>
      /\ inter[h].outcome = "nomatch"

\* a whitespace-only query answered with the no-match text by searchClubsByName
C3_Witness ==
  \E h \in Handlers :
    /\ variant # "v2"
    /\ inter[h].query = <<" ">>
    /\ inter[h].outcome = "nomatch"

\* C4: the search never fails; a request that failed (network error, timeout,
\* non-200 status) contributes no candidate and every candidate of a request
\* that succeeded is in the returned sequence.
C4_SearchAbsorbsFailures ==
  \A h \in Handlers :
    /\ inter[h].outcome # "search_threw"
    /\ \A p \in AllPlatforms :
         inter[h].resp[p].st = "failed" => inter[h].resp[p].cands = <<>>
    /\ (inter[h].kind = "scoutclub" /\ inter[h].pc \notin {"idle", "searching"}) =>
         /\ \A p \in AllPlatforms : \A i \in DOMAIN inter[h].resp[p].cands :
              \E j \in DOMAIN inter[h].matches :
                inter[h].matches[j] = inter[h].resp[p].cands[i]
         /\ \A j \in DOMAIN inter[h].matches :
              \E p \in AllPlatforms :
                /\ inter[h].resp[p].st = "ok"
                /\ \E i \in DOMAIN inter[h].resp[p].cands :
                     inter[h].matches[j] = inter[h].resp[p].cands[i]

\* a search with one failed and one successful request that returned clubs
C4_Witness ==
  \E h \in Handlers :
    /\ Searched(h)
    /\ \E p \in AllPlatforms : inter[h].resp[p].st = "failed"
    /\ \E p \in AllPlatforms :
         inter[h].resp[p].st = "ok" /\ inter[h].resp[p].cands # <<>>
    /\ inter[h].matches # <<>>

EntriesOf(u) == {e \in pendingScoutChoices : e.key = u}

FirstFive(m) == [i \in 1..(IF Len(m) < 5 THEN Len(m) ELSE 5) |-> m[i]]

\* C5: the pending map holds at most one entry per user, and while the entry
\* of the latest ambiguous search of a user has not been consumed it is the
\* only entry of that user and holds that search's query and first five
\* candidates, also when it replaced the entry of an earlier search.
C5_OneEntryLatestSearch ==
  \A u \in Users :
    /\ Cardinality(EntriesOf(u)) <= 1
    /\ (hist[u].storer # "none" /\ hist[u].resolved = 0) =>
         EntriesOf(u) = {Entry(u, inter[hist[u].storer].query,
                               FirstFive(inter[hist[u].storer].matches))}

\* a second ambiguous search has replaced the entry of a first one with a
\* list of another length
C5_Witness ==
  \E u \in Users :
    /\ hist[u].storer # "none" /\ hist[u].resolved = 0
    /\ hist[u].replacedLen >= 2
    /\ \E e \in EntriesOf(u) : Len(e.results) # hist[u].replacedLen

Rejected(h) == inter[h].pc = "done" /\ inter[h].outcome \in {"nopending", "invalid"}

\* C6: a selection made from the replaced menu whose index is not below the
\* length of the list now stored is rejected as invalid: no club detail is
\* fetched and no summarization call is made.
C6_StaleIndexRejected ==
  \A h \in Handlers :
    (/\ inter[h].kind = "scoutclub_pick"
     /\ inter[h].fromOld /\ inter[h].found /\ ~inter[h].inRange) =>
      /\ inter[h].pc = "done"
      /\ inter[h].outcome = "invalid"
      /\ inter[h].chosen = NoCandidate
      /\ inter[h].fetched = NoCandidate
      /\ ~inter[h].summarized

C6_Witness ==
  \E h \in Handlers :
    /\ inter[h].kind = "scoutclub_pick"
    /\ inter[h].fromOld /\ inter[h].found /\ ~inter[h].inRange
    /\ inter[h].outcome = "invalid"

\* C7: a choice made from the menu of the first search, after the second
\* search replaced the pending selection, fails as "no pending selection" or
\* "invalid selection" and never resolves to a club.
C7_OldMenuChoiceFails ==
  \A h \in Handlers :
    (inter[h].kind = "scoutclub_pick" /\ inter[h].fromOld) => Rejected(h)

\* C8: when two ambiguous /scoutclub commands of one user overlap, the
\* pending selection left once both handlers have finished is the one of the
\* command issued second.
C8_LastIssuedWins ==
  \A h, g \in Handlers :
    (/\ g \in inter[h].issuedAfter
     /\ inter[h].pc = "done" /\ inter[h].outcome = "menu"
     /\ inter[g].pc = "done" /\ inter[g].outcome = "menu") =>
      MapGet(pendingScoutChoices, inter[h].user).results = FirstFive(inter[h].matches)

\* C9: of the selections a user makes against one pending entry at most one
\* is accepted, and a selection that arrives after the accepted one (with no
\* new search in between) is answered "no pending selection".
C9_OneSelectionPerEntry ==
  /\ \A u \in Users : hist[u].resolved <= 1
  /\ \A h \in Handlers :
       (inter[h].kind = "scoutclub_pick" /\ inter[h].afterResolve) =>
         /\ inter[h].pc = "done"
         /\ inter[h].outcome = "nopending"
         /\ inter[h].fetched = NoCandidate

\* a second selection is turned away while the report of the first is still
\* being fetched
C9_Witness ==
  \E h, g \in Handlers :
    /\ h # g
    /\ inter[g].kind = "scoutclub_pick" /\ inter[g].pc = "fetching"
    /\ inter[h].kind = "scoutclub_pick" /\ inter[h].afterResolve
    /\ inter[h].user = inter[g].user
    /\ inter[h].outcome = "nopending"

\* C10: a selection with a valid index for the stored entry resolves to the
\* stored candidate at that index, whose platform and clubId are the ones
\* fetched, and removes the entry of the user from the pending map.
C10_ValidSelectionResolves ==
  /\ \A h \in Handlers :
       (inter[h].kind = "scoutclub_pick" /\ inter[h].found /\ inter[h].inRange) =>
         /\ inter[h].chosen = inter[h].want
         /\ inter[h].chosen # NoCandidate
         /\ ~Rejected(h)
         /\ openaiApiKey => inter[h].fetched = inter[h].want
         /\ inter[h].fetched \in {NoCandidate, inter[h].want}
  /\ \A u \in Users : hist[u].resolved > 0 => ~MapHas(pendingScoutChoices, u)

\* a club of the stored list was chosen, its detail is being fetched and the
\* entry of the user is gone
C10_Witness ==
  \E h \in Handlers :
    /\ inter[h].kind = "scoutclub_pick" /\ inter[h].found /\ inter[h].inRange
    /\ inter[h].pc = "fetching"
    /\ inter[h].fetched = inter[h].want
    /\ inter[h].fetched # NoCandidate
    /\ ~MapHas(pendingScoutChoices, inter[h].user)

\* the pending map a handler of the given kind works on
MapOf(kind) ==
  IF kind \in {"clubmatches", "clubmatches_pick"} THEN pendingMatchesChoices
  ELSE pendingScoutChoices

IsPick(h) == inter[h].kind \in {"scoutclub_pick", "clubmatches_pick"}

\* C11: a selection with an invalid index (out of range or not a number) made
\* by a user who has a pending entry is rejected and the entry of that user
\* is removed from the map.
C11_InvalidIndexConsumesEntry ==
  \A h \in Handlers :
    (IsPick(h) /\ inter[h].found /\ ~inter[h].inRange) =>
      /\ inter[h].pc = "done"
      /\ inter[h].outcome = "invalid"
      /\ ~MapHas(MapOf(inter[h].kind), inter[h].user)

\* C12: a scoutclub_pick selection of a user with no pending entry is
\* rejected: both pending maps stay as they were, no EA request is issued
\* and no summarization call is made.
C12_NoPendingRejected ==
  [][\A h \in Handlers :
       (/\ inter[h].pc = "idle"
        /\ inter'[h].kind = "scoutclub_pick"
        /\ ~inter'[h].found) =>
         /\ inter'[h].pc = "done"
         /\ inter'[h].outcome = "nopending"
         /\ pendingScoutChoices' = pendingScoutChoices
         /\ pendingMatchesChoices' = pendingMatchesChoices
         /\ inter'[h].chosen = NoCandidate
         /\ inter'[h].fetched = NoCandidate
         /\ ~inter'[h].summarized
         /\ \A p \in AllPlatforms : inter'[h].resp[p].st = "idle"]_vars

\* a user without an entry was turned away while another user's /scoutclub
\* entry and the user's own /clubmatches entry are pending
C12_Witness ==
  \E h \in Handlers :
    /\ inter[h].kind = "scoutclub_pick"
    /\ ~inter[h].found
    /\ inter[h].outcome = "nopending"
    /\ \E e \in pendingScoutChoices : e.key # inter[h].user
    /\ MapHas(pendingMatchesChoices, inter[h].user)

\* C13: a /scoutclub search that returns exactly one candidate goes straight
\* to the report of that candidate (its platform and clubId are fetched) and
\* no step of the command changes a pending map.
C13_SingleMatchShortcut ==
  [][\A h \in Handlers :
       (/\ inter'[h] # inter[h]
        /\ inter'[h].kind = "scoutclub"
        /\ Len(inter'[h].matches) = 1) =>
         /\ pendingScoutChoices' = pendingScoutChoices
         /\ pendingMatchesChoices' = pendingMatchesChoices
         /\ inter'[h].chosen = inter'[h].matches[1]
         /\ inter'[h].outcome # "menu"
         /\ inter'[h].menu = <<>>
         /\ openaiApiKey => inter'[h].fetched = inter'[h].matches[1]
         /\ inter[h].pc = "searching" =>
              inter'[h].pc = (IF openaiApiKey THEN "fetching" ELSE "done")]_vars

\* the only match is being fetched while an older selection of the same user
\* is still pending
C13_Witness ==
  \E h \in Handlers :
    /\ inter[h].kind = "scoutclub"
    /\ Len(inter[h].matches) = 1
    /\ inter[h].pc = "fetching"
    /\ inter[h].fetched = inter[h].matches[1]
    /\ MapHas(pendingScoutChoices, inter[h].user)

\* C14: a /scoutclub or /clubmatches search that returns no candidate ends
\* with the no-match reply: no pending entry is created, no club detail is
\* fetched and no summarization call is made.
C14_NoMatchTerminal ==
  [][\A h \in Handlers :
       (/\ inter[h].pc = "searching"
        /\ inter'[h].pc # "searching"
        /\ inter'[h].matches = <<>>) =>
         /\ inter'[h].pc = "done"
         /\ inter'[h].outcome = "nomatch"
         /\ pendingScoutChoices' = pendingScoutChoices
         /\ pendingMatchesChoices' = pendingMatchesChoices
         /\ inter'[h].chosen = NoCandidate
         /\ inter'[h].fetched = NoCandidate
         /\ ~inter'[h].summarized]_vars

\* a /clubmatches search whose requests all failed has ended with no match
C14_Witness ==
  \E h \in Handlers :
    /\ inter[h].kind = "clubmatches"
    /\ inter[h].outcome = "nomatch"
    /\ \A p \in AllPlatforms : inter[h].resp[p].st = "failed"
    /\ pendingMatchesChoices = {}

\* C15: every entry put into a pending map holds between 2 and 5 candidates:
\* the first min(5, n) candidates, in order, of the n-element result of the
\* search that stored it.
C15_StoredListIsPrefix ==
  [][\A e \in (pendingScoutChoices' \ pendingScoutChoices)
               \cup (pendingMatchesChoices' \ pendingMatchesChoices) :
       /\ Len(e.results) >= 2 /\ Len(e.results) <= 5
       /\ \E h \in Handlers :
            /\ inter[h].pc \in {"idle", "searching"} /\ inter'[h].pc = "done"
            /\ inter'[h].outcome = "menu"
            /\ inter'[h].user = e.key
            /\ Len(e.results) = (IF Len(inter'[h].matches) < 5
                                   THEN Len(inter'[h].matches) ELSE 5)
            /\ \A i \in DOMAIN e.results : e.results[i] = inter'[h].matches[i]]_vars

\* a /clubmatches search with more than five clubs left five in the map
C15_Witness ==
  \E h \in Handlers :
    /\ inter[h].kind = "clubmatches"
    /\ inter[h].outcome = "menu"
    /\ Len(inter[h].matches) > 5
    /\ Len(MapGet(pendingMatchesChoices, inter[h].user).results) = 5

\* C16: in a presented menu the club displayed with number k carries the
\* option value k-1 (as a decimal numeral), the options are those of the
\* indices of the stored list, and choosing the club displayed in the menu of
\* the stored entry resolves to that club and removes the entry.
C16_MenuNumbering ==
  /\ \A h \in Handlers :
       inter[h].outcome = "menu" =>
         /\ Len(inter[h].menu) = Len(FirstFive(inter[h].matches))
         /\ \A k \in DOMAIN inter[h].menu :
              /\ inter[h].menu[k].number = k
              /\ inter[h].menu[k].value = <<Digits[k]>>
              /\ inter[h].menu[k].club = inter[h].matches[k]
  /\ \A h \in Handlers :
       (inter[h].kind = "scoutclub_pick" /\ inter[h].item # NoCandidate) =>
         /\ inter[h].chosen = inter[h].item
         /\ ~Rejected(h)
         /\ ~MapHas(pendingScoutChoices, inter[h].user)

\* a club of the second platform, shown in the menu of the stored entry, was
\* chosen and is being fetched
C16_Witness ==
  \E h \in Handlers :
    /\ inter[h].kind = "scoutclub_pick"
    /\ inter[h].item # NoCandidate
    /\ inter[h].chosen = inter[h].item
    /\ inter[h].item.fcPlatform = FC_PLATFORMS[2]
    /\ inter[h].pc = "fetching"

\* a detail request came back with nothing: it failed, or its body was null,
\* an empty array, an empty object or empty text
NullOrEmpty(value) == value.shape \in {"rejected", "null"} \/ value.n = 0

AllSectionsEmpty(d) == \A k \in StatsKinds \cup MatchKinds : NullOrEmpty(d[k])

InsufficientDataFailure(h) ==
  /\ inter[h].pc = "done"
  /\ inter[h].outcome = "fail_data"
  /\ ~inter[h].summarized

\* C17: when every stats, member-stats and match-history fetch of the
\* resolved club returns null or empty, createScoutingReportFromId (v2) fails
\* with the insufficient-data error and the OpenAI call is never made.
C17_AllEmptyIsInsufficient ==
  \A h \in Handlers :
    (/\ variant = "v2"
     /\ inter[h].data # NoData
     /\ AllSectionsEmpty(inter[h].data)) => InsufficientDataFailure(h)

\* C18: report assembly (v2) fails with insufficient data exactly when the
\* stats payloads and the match payloads are all null or empty, whatever the
\* club info request returned.
C18_InsufficientExactlyWhenEmpty ==
  \A h \in Handlers :
    (variant = "v2" /\ inter[h].data # NoData) =>
      (InsufficientDataFailure(h) <=> AllSectionsEmpty(inter[h].data))

\* the cap on the records of one match type: the requested maximum (v2), the
\* slice size (v3)
MatchCap(v) == IF v = "v2" THEN MaxResultCount ELSE MatchSlice

\* C19: when a match-history fetch returns more records than the cap, the
\* prompt contains at most cap records of that match type (the first ones),
\* for each match type on its own.
C19_BoundedHistory ==
  \A h \in Handlers :
    (variant \in {"v2", "v3"} /\ inter[h].summarized) =>
      \A i \in DOMAIN MatchKeys :
        LET value == inter[h].data[MatchKeys[i]]
        IN  (value.shape = "array" /\ value.n > MatchCap(variant)) =>
              inter[h].prompt.recs[i] <= MatchCap(variant)

SectionWithinBudget(text, budget) ==
  IF text.len > budget
    THEN text.prefix = budget /\ text.appended > 0
    ELSE text.prefix = text.len /\ text.appended = 0

C21_FetchesIndependent ==
  \A h \in Handlers :
    inter[h].data # NoData =>
      /\ ~inter[h].payloads.threw
      /\ \A k \in Range(FetchKinds(variant)) :
           inter[h].payloads.fields[k] =
             IF inter[h].data[k].shape = "rejected" THEN NullData ELSE inter[h].data[k]

\* the ordered ladder: the value under the key clubId, else the first array
\* element, else the whole object, else nothing
Ladder(resp, id) ==
  IF HasKey(resp, id) THEN Item(id)
  ELSE IF resp.shape = "array" THEN (IF resp.n > 0 THEN Item(0) ELSE Nothing)
  ELSE IF resp.shape = "object" THEN Whole
  ELSE Nothing

\* C22: for a /clubs/info response that is a bare array, an object keyed by
\* clubId, a singleton object, an empty array or null, clubInfo is what the
\* ladder gives: key lookup by clubId, then first array element, then the
\* whole object, else null.
C22_ClubInfoLadder ==
  \A h \in Handlers :
    LET resp == SafeData(inter[h].data["info"])
    IN  (/\ variant \in {"v2", "v3"}
         /\ inter[h].data # NoData
         /\ ~inter[h].payloads.threw
         /\ resp.shape \in {"array", "object", "null"}) =>
          inter[h].payloads.clubInfo = Ladder(resp, inter[h].fetched.clubId)

\* C23: when openai.responses.create returns no text, the report step fails
\* with an outcome of its own; it does not end as a successful report.
C23_EmptyResponseFails ==
  \A h \in Handlers :
    inter[h].summary = "empty" =>
      inter[h].outcome \notin {"report", "report_placeholder"}

\* the failure kinds that are to have a message of their own
NamedFailures == {"no_key", "insufficient_quota", "context_length_exceeded", "insufficient_data"}

\* C24: (v2) a report that failed for missing credentials, exceeded quota,
\* context too large or insufficient data shows a message that is not the
\* generic one and that no other failure kind shows.
C24_DistinctFailureMessages ==
  \A h \in Handlers :
    (variant = "v2" /\ inter[h].pc = "done" /\ inter[h].err # "none") =>
      /\ inter[h].outcome = "fail_quota" <=> inter[h].err = "insufficient_quota"
      /\ inter[h].outcome = "fail_context" <=> inter[h].err = "context_length_exceeded"
      /\ inter[h].outcome = "fail_data" <=> inter[h].err = "insufficient_data"
      /\ inter[h].err \in NamedFailures => inter[h].outcome # "fail_generic"

\* a successful search response whose body is a bare array of rows or an
\* object keyed by row index or club id, every row carrying a club id
RowsWithIds(out) ==
  /\ out.kind = "response" /\ out.status = 200
  /\ out.body.kind \in {"array", "object"}
  /\ out.body.rows # <<>>
  /\ \A i \in DOMAIN out.body.rows : RowClubIdV2(out.body.rows[i]) > 0

\* C25: (v2) a successful search response carrying n rows that each have a
\* club id gives exactly n candidates for its platform, one per row with
\* that row's id, for a bare array of rows and for an object keyed by row
\* index or id alike.
C25_OneCandidatePerRow ==
  [][\A h \in Handlers, p \in AllPlatforms, out \in SearchOutcomes :
       (variant = "v2" /\ RowsWithIds(out) /\ SearchSettled(h, p, out)) =>
         inter'[h].resp[p].cands =
           [i \in DOMAIN out.body.rows |-> Candidate(p, RowClubIdV2(out.body.rows[i]))]]_vars

\* the kind of the interaction a step of handler h belongs to
StepKind(h) == IF inter[h].pc = "idle" THEN inter'[h].kind ELSE inter[h].kind

\* C26: the two flows keep separate pending maps: no step of a /clubmatches
\* command or clubmatches_pick selection changes pendingScoutChoices, no
\* step of a /scoutclub command or scoutclub_pick selection changes
\* pendingMatchesChoices, and a scoutclub_pick selection is resolved only
\* against the entry a /scoutclub search stored.
C26_SeparatePendingMaps ==
  [][\A h \in Handlers :
       /\ StepKind(h) \in {"clubmatches", "clubmatches_pick"} =>
            pendingScoutChoices' = pendingScoutChoices
       /\ StepKind(h) \in {"scoutclub", "scoutclub_pick"} =>
            pendingMatchesChoices' = pendingMatchesChoices
       /\ (inter[h].pc = "idle" /\ inter'[h].kind = "scoutclub_pick") =>
            IF MapHas(pendingScoutChoices, inter'[h].user)
              THEN inter'[h].chosen \in
                     {NoCandidate} \cup Range(MapGet(pendingScoutChoices, inter'[h].user).results)
              ELSE inter'[h].outcome = "nopending" /\ inter'[h].chosen = NoCandidate]_vars

\* a clubmatches_pick selection was accepted and consumed the user's
\* /clubmatches entry while the user's /scoutclub entry is still pending
C26_Witness ==
  \E h \in Handlers :
    /\ inter[h].kind = "clubmatches_pick"
    /\ inter[h].chosen # NoCandidate
    /\ MapHas(pendingScoutChoices, inter[h].user)
    /\ ~MapHas(pendingMatchesChoices, inter[h].user)

\* handler h has called the report routine: createScoutingReportFromId for a
\* chosen club (v1, v2, v3), createScoutingReport for a name (v4)
ReportCalled(h) ==
  \/ inter[h].chosen # NoCandidate /\ inter[h].pc # "fetching_matches"
                                   /\ inter[h].outcome # "matches_summary"
  \/ variant = "v4" /\ inter[h].kind = "scoutclub"

\* C27: with no OpenAI API key configured the report routine fails before
\* any EA lookup or detail request is issued and without calling the
\* summarizer, in every variant.
C27_NoKeyFailsFirst ==
  \A h \in Handlers :
    (~openaiApiKey /\ ReportCalled(h)) =>
      /\ inter[h].pc = "done"
      /\ inter[h].err = "no_key"
      /\ inter[h].outcome = "fail_generic"
      /\ inter[h].queried = <<>>
      /\ inter[h].fetched = NoCandidate
      /\ inter[h].data = NoData
      /\ ~inter[h].summarized
      /\ inter[h].summary = "none"

\* a report for a club found by the search failed for the missing key
C27_Witness ==
  \E h \in Handlers :
    /\ ~openaiApiKey
    /\ inter[h].chosen # NoCandidate
    /\ inter[h].err = "no_key"
    /\ inter[h].pc = "done"

\* the lookup of handler h returned a club id
IsId(res) == res.kind = "value" /\ res.clubId # 0

\* C28: (part_001) createScoutingReport queries the platforms one at a time
\* in the order xboxone, ps5, ps4, pc; the first platform returning a club id
\* ends the lookups and is the one the details are fetched for; a lookup
\* that throws or finds nothing is followed by the next platform; when no
\* platform returns an id the report fails with 'not found' with no detail
\* fetched and no summarizer call.
C28_SequentialLookup ==
  \A h \in Handlers :
    variant = "v4" =>
      LET q == inter[h].queried
          order == <<"xboxone", "ps5", "ps4", "pc">>
      IN  /\ Len(q) <= 4
          /\ \A i \in DOMAIN q : q[i].platform = order[i]
          /\ \A i \in DOMAIN q : i < Len(q) => ~IsId(q[i].res)
          /\ (q # <<>> /\ IsId(q[Len(q)].res)) =>
                /\ inter[h].pc \in {"fetching", "summarizing", "done"}
                /\ inter[h].fetched = Candidate(order[Len(q)], q[Len(q)].res.clubId)
          /\ (q # <<>> /\ ~IsId(q[Len(q)].res) /\ Len(q) < 4) => inter[h].pc = "looking_up"
          /\ (Len(q) = 4 /\ ~IsId(q[4].res)) =>
                /\ inter[h].pc = "done"
                /\ inter[h].err = "not_found"
                /\ inter[h].outcome = "fail_generic"
                /\ inter[h].fetched = NoCandidate
                /\ inter[h].data = NoData
                /\ ~inter[h].summarized
          /\ inter[h].fetched # NoCandidate => (q # <<>> /\ IsId(q[Len(q)].res))

\* the lookup threw on xboxone, found nothing on ps5 and found the club on
\* ps4, whose details were fetched and summarized
C28_Witness ==
  \E h \in Handlers :
    /\ variant = "v4"
    /\ Len(inter[h].queried) = 3
    /\ inter[h].queried[1].res = LookupThrew
    /\ inter[h].queried[2].res = LookupValue(0)
    /\ inter[h].fetched = Candidate("ps4", 1)
    /\ inter[h].summarized

\* the records of a match history that have an entry for the club
WithEntry(ms) == {i \in DOMAIN ms : ms[i].mine >= 0}

\* C29: for an array of match records computeRecord returns a record with
\* played = wins + draws + losses, goalDiff = goalsFor - goalsAgainst and
\* played equal to the number of records that have an entry for clubId; for
\* a non-array input it returns null.
C29_ComputeRecord ==
  \A h \in Handlers :
    inter[h].outcome = "matches_summary" =>
      \A k \in MatchKinds :
        LET in == inter[h].sample[k]
            rec == inter[h].records[k]
        IN  IF in.isArray
              THEN /\ ~rec.isNull
                   /\ rec.played = rec.wins + rec.draws + rec.losses
                   /\ rec.goalDiff = rec.goalsFor - rec.goalsAgainst
                   /\ rec.played = Cardinality(WithEntry(in.ms))
              ELSE rec.isNull

\* a league history with a win, a record without an entry for the club and
\* a loss gave a record of two matches played
C29_Witness ==
  \E h \in Handlers :
    /\ inter[h].outcome = "matches_summary"
    /\ inter[h].sample["leagueMatches"] =
         MatchArray(<<Match(1, 0), Match(-1, -1), Match(0, 1)>>)
    /\ inter[h].records["leagueMatches"].played = 2
    /\ inter[h].records["leagueMatches"].wins = 1
    /\ inter[h].records["leagueMatches"].losses = 1
    /\ inter[h].records["playoffMatches"].isNull

\* the messages a deferred command or an accepted selection can end with
FinalOutcomes ==
  {"nomatch", "menu", "report", "report_placeholder", "matches_summary",
   "fail_generic", "fail_quota", "fail_context", "fail_data"}

\* handler h has deferred its reply and is waiting for a request
Working(h) == inter[h].pc \notin {"idle", "done"}

====
